---------------------------- MODULE Spec2Model ----------------------------
(***************************************************************************)
(* CivitFetch: the model downloader (src/CLI/CiviFetch.py, and             *)
(* handle_model_download_new of src/GUI/app.py) and the gallery downloader *)
(* (src/CLI/ImgPull.py, and CivitaiDownloader of src/GUI/app.py).          *)
(*                                                                         *)
(* Strings are sequences of one-character strings, so that a regular       *)
(* expression search, lower() and "in" are computed, not assumed.          *)
(* The remote API is the environment: every response is a                  *)
(* nondeterministic choice among the kinds the code distinguishes.         *)
(***************************************************************************)
EXTENDS Integers, Sequences, FiniteSets, TLC

VARIABLES
    app,              \* which program runs: "models", "gallery", "resolve", "nsfw", "api", "names", "handlers"
    variant,          \* "CLI" or "GUI": the two implementations
    pc,               \* position of the model downloader's driver
    run,              \* number of the current run (the file system outlives a run)
    entries,          \* the raw input entries
    mode,             \* "single" or "bulk"
    nsfw_choice,      \* answer to "Download NSFW models?" (GUI: nsfw_toggle = "Yes")
    download_choice,  \* CLI answer to "Start downloading models?"
    download_nsfw,    \* the global NSFW decision of the run
    unique_model_ids, \* the working list
    unique_count,     \* the count printed by "Found N unique models ..."
    rows,             \* the row dicts, by S.No (all_metadata etc. alias them)
    all_metadata,     \* list of rows (as S.No) written to the report
    valid_models,     \* GUI: rows that pass the NSFW filter
    nsfw_models,      \* GUI: rows classified NSFW
    idx,              \* loop index of the running phase
    attempt,          \* attempt number inside download_with_progress
    fs,               \* CivitModels/: file name -> [body, by]
    report,           \* the report file as last written (rows without "_" keys)
    reports_written,  \* how many times a report was written in this run
    requested,        \* S.No of the rows a download request was issued for
    fault,            \* the exception that ended the run, and what raised it
    fn,               \* harness of the pure functions: [in, flag, out, done]
    api,              \* the API client: the make_api_request call under way
    page,             \* gallery: params['page']
    n_items,          \* gallery: len(items) of the page being processed
    current_page,     \* gallery (GUI): metadata.get('currentPage', params['page'])
    page_full,        \* gallery (CLI): len(items) = params['limit']
    processed_image_ids, \* gallery (GUI): the processed set
    total_downloaded, \* gallery: total_downloaded / total_images
    failed_images,    \* gallery (CLI): failed_images
    pages_requested,  \* gallery: the page numbers requested so far
    page_log,         \* gallery: what each page request was answered with
    image_requests,   \* gallery: image path -> number of image requests issued
    image_input,      \* image run: the URL and the NSFW choice the user gave
    params,           \* gallery: the params dict of download_gallery, without 'page'
    sent,             \* gallery: the params (without 'page') of the page requests sent
    img,              \* gallery: the item the item loop has in hand
    sys_stdout,       \* GUI process: the stream sys.stdout names
    sys_stderr,       \* GUI process: the stream sys.stderr names
    output_capture,   \* GUI process: the buffer of the global PrintCapture
    call              \* GUI process: the handle_image_download invocations

vars == <<app, variant, pc, run, entries, mode, nsfw_choice, download_choice,
          download_nsfw, unique_model_ids, unique_count, rows, all_metadata,
          valid_models, nsfw_models, idx, attempt, fs, report,
          reports_written, requested, fault, fn, api, page, n_items,
          current_page,
          page_full, processed_image_ids, total_downloaded, failed_images,
          pages_requested, page_log, image_requests, image_input, params, sent,
          img, sys_stdout, sys_stderr, output_capture, call>>

\* the output streams of the GUI process and the handler invocations
hvars == <<sys_stdout, sys_stderr, output_capture, call>>

\* the variables of the gallery walk
gvars == <<page, n_items, current_page, page_full, processed_image_ids,
           total_downloaded, failed_images, pages_requested, page_log,
           image_requests, image_input, params, sent, img>>

\* the variables of the model downloader alone
mvars == <<run, entries, mode, nsfw_choice, download_choice, download_nsfw,
           unique_model_ids, unique_count, rows, all_metadata, valid_models,
           nsfw_models, attempt, report, reports_written, requested>>

-----------------------------------------------------------------------------
(* Strings *)

Digits == {"0", "1", "2", "3", "4", "5", "6", "7", "8", "9"}

\* str.lower() on the letters the model uses
Lower(c) ==
    CASE c = "N" -> "n"
      [] c = "S" -> "s"
      [] c = "F" -> "f"
      [] c = "W" -> "w"
      [] c = "A" -> "a"
      [] OTHER -> c

LowerStr(s) == [i \in 1..Len(s) |-> Lower(s[i])]

\* sub in s
Contains(s, sub) ==
    \E i \in 1..(Len(s) - Len(sub) + 1) :
        \A j \in 1..Len(sub) : s[i + j - 1] = sub[j]

\* "/models/" is one symbol of the alphabet
MODELS == "/models/"

\* the positions where r"/models/(\d+)" matches
MatchStarts(entry) ==
    {i \in 1..(Len(entry) - 1) : entry[i] = MODELS /\ entry[i + 1] \in Digits}

\* the end of the greedy \d+ that starts at position i
RECURSIVE DigitRunEnd(_, _)
DigitRunEnd(entry, i) ==
    IF i < Len(entry) /\ entry[i + 1] \in Digits
    THEN DigitRunEnd(entry, i + 1)
    ELSE i

Min(S) == CHOOSE x \in S : \A y \in S : x <= y

\* m = re.search(r"/models/(\d+)", entry); model_id = m.group(1) if m else entry
ExtractModelId(entry) ==
    IF MatchStarts(entry) = {}
    THEN entry
    ELSE LET i == Min(MatchStarts(entry))
         IN  SubSeq(entry, i + 1, DigitRunEnd(entry, i + 1))

\* as DedupFrom, with the raw entry as the key of seen_ids
RECURSIVE DedupFromRawEntries(_, _, _)
DedupFromRawEntries(es, seen_ids, acc) ==
    IF es = <<>>
    THEN acc
    ELSE IF Head(es) \notin seen_ids
         THEN DedupFromRawEntries(Tail(es), seen_ids \cup {Head(es)},
                                  Append(acc, ExtractModelId(Head(es))))
         ELSE DedupFromRawEntries(Tail(es), seen_ids, acc)

\* the loop over entries with seen_ids / unique_model_ids
RECURSIVE DedupFrom(_, _, _)
DedupFrom(es, seen_ids, acc) ==
    IF es = <<>>
    THEN acc
    ELSE LET model_id == ExtractModelId(Head(es))
         IN  IF model_id \notin seen_ids
             THEN DedupFrom(Tail(es), seen_ids \cup {model_id}, Append(acc, model_id))
             ELSE DedupFrom(Tail(es), seen_ids, acc)

RECURSIVE ResolveKeepsAll(_)
ResolveKeepsAll(es) ==
    IF es = <<>> THEN <<>>
    ELSE <<ExtractModelId(Head(es))>> \o ResolveKeepsAll(Tail(es))

Resolve(es) == DedupFrom(es, {}, <<>>)

-----------------------------------------------------------------------------
(* NSFW classification *)

NSFW_WORD == <<"n", "s", "f", "w">>

\* isinstance(tag, str) and "nsfw" in tag.lower()
TagIsNsfw(tag) == tag.str /\ Contains(LowerStr(tag.text), NSFW_WORD)

\* src/CLI/CiviFetch.py: the empty tag list is answered first
detect_nsfw_from_tags_CLI(tags, nsfw_flag) ==
    IF tags = <<>> THEN "SFW"
    ELSE IF \E i \in 1..Len(tags) : TagIsNsfw(tags[i]) THEN "NSFW"
    ELSE IF nsfw_flag THEN "NSFW"
    ELSE "SFW"

\* src/GUI/app.py: the flag is answered first
detect_nsfw_from_tags_GUI(tags, nsfw_flag) ==
    IF nsfw_flag THEN "NSFW"
    ELSE IF tags = <<>> THEN "SFW"
    ELSE IF \E i \in 1..Len(tags) : TagIsNsfw(tags[i]) THEN "NSFW"
    ELSE "SFW"

detect_nsfw_from_tags(v, tags, nsfw_flag) ==
    IF v = "CLI"
    THEN detect_nsfw_from_tags_CLI(tags, nsfw_flag)
    ELSE detect_nsfw_from_tags_GUI(tags, nsfw_flag)

-----------------------------------------------------------------------------
(* The model downloader: data *)

Variants == {"CLI", "GUI"}

\* bounds of the model
MaxEntries == 2
MaxRuns == 2

\* for attempt in range(1, 6) / range(1, 4)
DownloadAttemptsCLI == 5
DownloadAttemptsGUI == 3

AttemptCap(v) == IF v = "CLI" THEN DownloadAttemptsCLI ELSE DownloadAttemptsGUI

SeqsUpTo(S, n) == UNION {[1..k -> S] : k \in 0..n}

\* the entries a user gives: a bare ID, a URL of the same model, a URL of another
PipeEntryPool ==
    { <<"1">>, <<"h", MODELS, "1">>, <<"h", MODELS, "2", "?", "v">> }

\* the inputs of a run: the resolve step is exercised on every list in
\* SpecResolve; here the lists start with the bare ID
PipeInputs ==
    {es \in SeqsUpTo(PipeEntryPool, MaxEntries) : es # <<>> => es[1] = <<"1">>}

ModelIds == {ExtractModelId(e) : e \in PipeEntryPool} \cup {<<>>}

\* file names in CivitModels/
NoFile == <<"none", <<>>>>
Fallback(model_id) == <<"fallback", model_id>>
ServerName(model_id) == <<"content-disposition", model_id>>

\* the models whose download response carries content-disposition: filename="..."
NamedByServer == {<<"2">>}

\* fname = m.group(1) if m else fallback
ResolveName(model_id, fallback) ==
    IF model_id \in NamedByServer THEN ServerName(model_id) ELSE fallback

FileNames == {ResolveName(i, Fallback(i)) : i \in ModelIds}

Absent == [body |-> "none", by |-> 0]
\* os.path.exists(out_path)
Exists(f) == f \in DOMAIN fs /\ fs[f].body # "none"

\* what GET /models/<id> can answer, by what the collector does with it
MetaKinds ==
    {"ok", "404", "ConnectionError", "no_modelVersions", "empty_modelVersions",
     "no_files", "empty_files", "no_downloadUrl"}

Malformed ==
    {"no_modelVersions", "empty_modelVersions", "no_files", "empty_files",
     "no_downloadUrl"}

Tag(text) == [str |-> TRUE, text |-> text]

PipeTagLists ==
    { <<>>, <<Tag(<<"a", "r", "t">>)>>, <<Tag(<<"a">>), Tag(<<"N", "S", "F", "W", "-">>)>> }

MetaResponses ==
    [kind : {"ok"}, tags : PipeTagLists, nsfw : BOOLEAN]
    \cup [kind : MetaKinds \ {"ok"}, tags : {<<>>}, nsfw : {FALSE}]

\* the exception fetch_json or the field extraction raises on a response
MetaRaises(resp) ==
    CASE resp.kind = "ok" -> "none"
      [] resp.kind = "404" -> "HTTPError"
      [] resp.kind = "ConnectionError" -> "ConnectionError"
      [] resp.kind \in {"no_modelVersions", "no_files", "no_downloadUrl"} -> "KeyError"
      [] OTHER -> "IndexError"

MetadataCaughtWrongClass(v, exc) == IF v = "CLI" THEN exc = "ConnectionError" ELSE TRUE

\* except HTTPError (CLI) / except Exception (GUI) around the collection of one model
MetadataCaught(v, exc) == IF v = "CLI" THEN exc = "HTTPError" ELSE TRUE

RequestExceptions ==
    {"HTTPError", "ConnectionError", "Timeout", "RetryError", "ChunkedEncodingError"}

\* except (ChunkedEncodingError, HTTPError) (CLI) / except RequestException (GUI)
DownloadCaught(v, exc) ==
    IF v = "CLI"
    THEN exc \in {"ChunkedEncodingError", "HTTPError"}
    ELSE exc \in RequestExceptions

\* the row status; the exception text of the GUI's status is the row's error field
MetaFailedStatus(v) ==
    IF v = "CLI" THEN "Failed to fetch metadata" ELSE "Failed: metadata"

DownloadFailedStatus(v) ==
    IF v = "CLI" THEN "Download failed"
    ELSE "Failed: Download failed after multiple attempts"

NoFault == [exc |-> "none", resp |-> "none", phase |-> "none"]

\* the row of a model whose metadata was read
ModelRow(v, sno, model_id, resp) ==
    LET nsfw_status == detect_nsfw_from_tags(v, resp.tags, resp.nsfw)
    IN  [sno |-> sno, id |-> model_id, nsfw |-> nsfw_status, status |-> "Pending",
         in_status |-> NoFile, url |-> TRUE, filename |-> Fallback(model_id),
         is_nsfw |-> (resp.nsfw \/ nsfw_status = "NSFW"),
         error |-> "none", saved |-> NoFile]

ErrorRowKeepsUrl(v, sno, model_id, resp) ==
    [sno |-> sno, id |-> model_id, nsfw |-> "-", status |-> MetaFailedStatus(v),
     in_status |-> NoFile, url |-> TRUE, filename |-> Fallback(model_id),
     is_nsfw |-> FALSE, error |-> MetaRaises(resp), saved |-> NoFile]

\* the row of a model whose metadata could not be read (GUI: f"Failed: {str(e)}")
ErrorRow(v, sno, model_id, resp) ==
    [sno |-> sno, id |-> model_id, nsfw |-> "-", status |-> MetaFailedStatus(v),
     in_status |-> NoFile, url |-> FALSE, filename |-> NoFile, is_nsfw |-> FALSE,
     error |-> MetaRaises(resp), saved |-> NoFile]

DisplayStale(rs, am) ==
    [k \in 1..Len(am) |->
        [sno |-> rs[am[k]].sno, id |-> rs[am[k]].id, nsfw |-> rs[am[k]].nsfw,
         status |-> IF rs[am[k]].url THEN "Pending" ELSE rs[am[k]].status,
         in_status |-> NoFile]]

\* the rows as written: keys starting with "_" removed
Display(rs, am) ==
    [k \in 1..Len(am) |->
        [sno |-> rs[am[k]].sno, id |-> rs[am[k]].id, nsfw |-> rs[am[k]].nsfw,
         status |-> rs[am[k]].status, in_status |-> rs[am[k]].in_status]]

-----------------------------------------------------------------------------
(* The model downloader: main() and handle_model_download_new *)

inputs == <<app, variant, entries, mode, nsfw_choice, download_choice>>

MaxCalls == 2
MaxPrints == 1

Invocations == 1..MaxCalls

\* an invocation that has not begun
NotBegun ==
    [pc |-> "idle", original_stdout |-> "none", original_stderr |-> "none",
     printed |-> <<>>, returned |-> <<>>]

\* the streams as the interpreter installed them, an empty buffer, no invocation
HandlersIdle ==
    /\ sys_stdout = "console"
    /\ sys_stderr = "console"
    /\ output_capture = <<>>
    /\ call = [i \in Invocations |-> NotBegun]

FnIdle == fn = [in |-> <<>>, flag |-> FALSE, out |-> "", done |-> FALSE]

\* no API call under way
NoCause == [status |-> 0, exc |-> "none"]
NoResult == [value |-> "pending", exc |-> "none", carries |-> NoCause]
NoCall ==
    [endpoint |-> "none", retries |-> 0, history |-> <<>>, sleeps |-> <<>>,
     result |-> NoResult, ended |-> FALSE, auth_seen |-> FALSE]

ApiIdle == api = NoCall

\* no image run: no input, no params dict, no item in hand
NoImageInput == [url |-> <<>>, nsfw_choice |-> "none"]
NoParams == [modelId |-> <<>>, limit |-> 0, modelVersionId |-> <<>>, nsfw |-> "absent"]
NoItem == [id |-> -1, url |-> [base |-> "", ext |-> ""]]

\* download_gallery has not made a request yet
WalkIdle ==
    /\ page = 1
    /\ n_items = 0
    /\ current_page = 1
    /\ page_full = FALSE
    /\ processed_image_ids = {}
    /\ total_downloaded = 0
    /\ failed_images = 0
    /\ pages_requested = <<>>
    /\ page_log = <<>>
    /\ image_requests = <<>>
    /\ sent = {}
    /\ img = NoItem

GalleryIdle ==
    /\ WalkIdle
    /\ image_input = NoImageInput
    /\ params = NoParams

ModelsIdle ==
    /\ run = 1
    /\ mode = "single"
    /\ entries = <<>>
    /\ nsfw_choice = FALSE
    /\ download_choice = FALSE
    /\ download_nsfw = FALSE
    /\ unique_model_ids = <<>>
    /\ unique_count = 0
    /\ rows = <<>>
    /\ all_metadata = <<>>
    /\ valid_models = <<>>
    /\ nsfw_models = <<>>
    /\ attempt = 1
    /\ report = <<>>
    /\ reports_written = 0
    /\ requested = {}

InitModels ==
    /\ app = "models"
    /\ HandlersIdle
    /\ variant \in Variants
    /\ pc = "start"
    /\ run = 1
    /\ mode \in {"single", "bulk"}
    /\ entries \in PipeInputs
    /\ mode = "single" => Len(entries) <= 1
    /\ nsfw_choice \in BOOLEAN
    /\ download_choice \in BOOLEAN
    /\ variant = "GUI" => download_choice
    /\ download_nsfw = FALSE
    /\ unique_model_ids = <<>>
    /\ unique_count = 0
    /\ rows = <<>>
    /\ all_metadata = <<>>
    /\ valid_models = <<>>
    /\ nsfw_models = <<>>
    /\ idx = 1
    /\ attempt = 1
    /\ fs = [f \in FileNames |-> Absent]
    /\ report = <<>>
    /\ reports_written = 0
    /\ requested = {}
    /\ fault = NoFault
    /\ FnIdle
    /\ ApiIdle
    /\ GalleryIdle

\* the GUI's single mode takes the one input as it is: no list, no dedup
SingleInput == IF entries = <<>> THEN <<>> ELSE entries[1]

\* input validation and the resolve/dedup step
ResolveInput ==
    /\ app = "models"
    /\ pc = "start"
    /\ IF variant = "GUI" /\ mode = "single"
       THEN /\ unique_model_ids' = <<ExtractModelId(SingleInput)>>
            /\ unique_count' = unique_count
            /\ pc' = "collect"
       ELSE IF entries = <<>>
       THEN /\ pc' = "exit"
            /\ UNCHANGED <<unique_model_ids, unique_count>>
       ELSE /\ unique_model_ids' = Resolve(entries)
            /\ unique_count' = Len(Resolve(entries))
            /\ pc' = "collect"
    /\ download_nsfw' = IF variant = "GUI" THEN nsfw_choice ELSE FALSE
    /\ UNCHANGED <<hvars, inputs, run, rows, all_metadata, valid_models, nsfw_models, idx,
                   attempt, fs, report, reports_written, requested, fault, fn, api, gvars>>

\* one iteration of the phase 1 loop
CollectMetadata ==
    /\ app = "models"
    /\ pc = "collect"
    /\ idx <= Len(unique_model_ids)
    /\ \E resp \in MetaResponses :
        LET model_id == unique_model_ids[idx]
            exc == MetaRaises(resp)
            model_data == ModelRow(variant, idx, model_id, resp)
            skipped == [model_data EXCEPT !.status = "Skipped (NSFW)"]
        IN  IF exc = "none" /\ variant = "CLI"
            THEN /\ rows' = Append(rows, model_data)
                 /\ all_metadata' = Append(all_metadata, idx)
                 /\ idx' = idx + 1
                 /\ UNCHANGED <<valid_models, nsfw_models, pc, fault>>
            ELSE IF exc = "none" /\ model_data.nsfw = "NSFW" /\ download_nsfw
            THEN /\ rows' = Append(rows, model_data)
                 /\ valid_models' = Append(valid_models, idx)
                 /\ nsfw_models' = Append(nsfw_models, idx)
                 /\ idx' = idx + 1
                 /\ UNCHANGED <<all_metadata, pc, fault>>
            ELSE IF exc = "none" /\ model_data.nsfw = "NSFW"
            THEN /\ rows' = Append(rows, skipped)
                 /\ nsfw_models' = Append(nsfw_models, idx)
                 /\ idx' = idx + 1
                 /\ UNCHANGED <<all_metadata, valid_models, pc, fault>>
            ELSE IF exc = "none"
            THEN /\ rows' = Append(rows, model_data)
                 /\ valid_models' = Append(valid_models, idx)
                 /\ all_metadata' = Append(all_metadata, idx)
                 /\ idx' = idx + 1
                 /\ UNCHANGED <<nsfw_models, pc, fault>>
            ELSE IF MetadataCaught(variant, exc)
            THEN /\ rows' = Append(rows, ErrorRow(variant, idx, model_id, resp))
                 /\ all_metadata' = Append(all_metadata, idx)
                 /\ idx' = idx + 1
                 /\ UNCHANGED <<valid_models, nsfw_models, pc, fault>>
            ELSE /\ pc' = "crashed"
                 /\ fault' = [exc |-> exc, resp |-> resp.kind, phase |-> "collect"]
                 /\ UNCHANGED <<rows, all_metadata, valid_models, nsfw_models, idx>>
    /\ UNCHANGED <<hvars, inputs, run, download_nsfw, unique_model_ids, unique_count,
                   attempt, fs, report, reports_written, requested, fn, api, gvars>>

\* GUI: all_metadata.extend(nsfw_models) when NSFW models are downloaded
ReportedRows ==
    IF variant = "GUI" /\ download_nsfw /\ nsfw_models # <<>>
    THEN all_metadata \o nsfw_models
    ELSE all_metadata

\* the end of phase 1: the initial report (GUI: or the early exit)
InitialReport ==
    /\ app = "models"
    /\ pc = "collect"
    /\ idx > Len(unique_model_ids)
    /\ all_metadata' = ReportedRows
    /\ IF variant = "CLI"
       THEN /\ report' = Display(rows, ReportedRows)
            /\ reports_written' = reports_written + 1
            /\ pc' = "ask"
       ELSE IF valid_models = <<>> /\ ReportedRows = <<>>
       THEN /\ pc' = "done"
            /\ UNCHANGED <<report, reports_written>>
       ELSE /\ report' = Display(rows, ReportedRows)
            /\ reports_written' = reports_written + 1
            /\ pc' = IF valid_models = <<>> THEN "done" ELSE "download"
    /\ idx' = 1
    /\ attempt' = 1
    /\ UNCHANGED <<hvars, inputs, run, download_nsfw, unique_model_ids, unique_count, rows,
                   valid_models, nsfw_models, fs, requested, fault, fn, api, gvars>>

\* CLI: "Start downloading models?" and the single NSFW prompt
AskDownload ==
    /\ app = "models"
    /\ pc = "ask"
    /\ IF ~download_choice
       THEN /\ pc' = "done"
            /\ UNCHANGED download_nsfw
       ELSE /\ pc' = "download"
            /\ download_nsfw' =
                 ((\E k \in 1..Len(all_metadata) : rows[all_metadata[k]].is_nsfw)
                  /\ nsfw_choice)
    /\ UNCHANGED <<hvars, inputs, run, unique_model_ids, unique_count, rows, all_metadata,
                   valid_models, nsfw_models, idx, attempt, fs, report,
                   reports_written, requested, fault, fn, api, gvars>>

DownloadListValidOnly == valid_models

\* the list phase 2 walks
DownloadList == IF variant = "CLI" THEN all_metadata ELSE valid_models

InDownload ==
    /\ app = "models"
    /\ pc = "download"
    /\ idx <= Len(DownloadList)

CurrentRow == rows[DownloadList[idx]]

NoUrlNever(row) == FALSE

\* CLI: if not dl_url: continue
NoUrl(row) == variant = "CLI" /\ ~row.url

\* CLI: if is_nsfw and not download_nsfw
NsfwSkipped(row) == variant = "CLI" /\ row.is_nsfw /\ ~download_nsfw

SkipNoUrl ==
    /\ InDownload
    /\ NoUrl(CurrentRow)
    /\ idx' = idx + 1
    /\ UNCHANGED <<hvars, inputs, pc, run, download_nsfw, unique_model_ids, unique_count,
                   rows, all_metadata, valid_models, nsfw_models, attempt, fs,
                   report, reports_written, requested, fault, fn, api, gvars>>

SkipNsfw ==
    /\ InDownload
    /\ ~NoUrl(CurrentRow)
    /\ NsfwSkipped(CurrentRow)
    /\ rows' = [rows EXCEPT ![DownloadList[idx]].status = "Skipped (NSFW)"]
    /\ idx' = idx + 1
    /\ UNCHANGED <<hvars, inputs, pc, run, download_nsfw, unique_model_ids, unique_count,
                   all_metadata, valid_models, nsfw_models, attempt, fs, report,
                   reports_written, requested, fault, fn, api, gvars>>

\* what one attempt of download_with_progress can meet: session.get and
\* raise_for_status, the content-disposition header, the streamed body
AttemptOutcomes ==
    [get : {"HTTPError", "ConnectionError", "Timeout", "RetryError"}, body : {"none"}]
    \cup [get : {"ok"}, body : {"complete", "ChunkedEncodingError", "ConnectionError"}]

\* if os.path.exists(out_path): return ... (before the file is opened)
SkipsExisting(file_exists) == file_exists

\* the attempt opens the destination with open(out_path, "wb")
Opens(o, file_exists) == o.get = "ok" /\ ~SkipsExisting(file_exists)

\* the exception the attempt ends with, "none" when it returns
AttemptRaises(o, file_exists) ==
    IF o.get # "ok" THEN o.get
    ELSE IF SkipsExisting(file_exists) THEN "none"
    ELSE IF o.body = "complete" THEN "none"
    ELSE o.body

\* the file as the attempt leaves it
WrittenFile(o) ==
    [body |-> IF o.body = "complete" THEN "complete" ELSE "partial", by |-> run]

\* main / handle_model_download_new: the status written for a returned value.
\* The CLI returns fname in both cases; the GUI tells them apart by the text.
StatusOfReturn(v, file_exists) ==
    IF v = "CLI" THEN "Success"
    ELSE IF file_exists THEN "Skipped (Already exists)"
    ELSE "Success"

\* the file name in "Success - ...": CLI the returned name, GUI the fallback
NameInStatus(v, row, fname, status) ==
    IF status # "Success" THEN NoFile
    ELSE IF v = "CLI" THEN fname
    ELSE row.filename

\* one attempt of download_with_progress for the current model and, when the
\* call returns, the status written by the driver
DownloadAttempt ==
    /\ InDownload
    /\ ~NoUrl(CurrentRow)
    /\ ~NsfwSkipped(CurrentRow)
    /\ \E o \in AttemptOutcomes :
        LET sno == DownloadList[idx]
            row == rows[sno]
            fname == ResolveName(row.id, row.filename)
            file_exists == Exists(fname)
            exc == AttemptRaises(o, file_exists)
            status == StatusOfReturn(variant, file_exists)
        IN  /\ requested' = requested \cup {sno}
            /\ fs' = IF Opens(o, file_exists)
                     THEN [fs EXCEPT ![fname] = WrittenFile(o)]
                     ELSE fs
            /\ IF exc = "none"
               THEN /\ rows' = [rows EXCEPT ![sno].status = status,
                                            ![sno].in_status =
                                                NameInStatus(variant, row, fname, status),
                                            ![sno].saved = fname]
                    /\ idx' = idx + 1
                    /\ attempt' = 1
                    /\ UNCHANGED <<pc, fault>>
               ELSE IF ~DownloadCaught(variant, exc)
               THEN /\ pc' = "crashed"
                    /\ fault' = [exc |-> exc, resp |-> "download", phase |-> "download"]
                    /\ UNCHANGED <<rows, idx, attempt>>
               ELSE IF attempt < AttemptCap(variant)
               THEN /\ attempt' = attempt + 1
                    /\ UNCHANGED <<rows, idx, pc, fault>>
               ELSE /\ rows' = [rows EXCEPT ![sno].status = DownloadFailedStatus(variant)]
                    /\ idx' = idx + 1
                    /\ attempt' = 1
                    /\ UNCHANGED <<pc, fault>>
    /\ UNCHANGED <<hvars, inputs, run, download_nsfw, unique_model_ids, unique_count,
                   all_metadata, valid_models, nsfw_models, report,
                   reports_written, fn, api, gvars>>

\* the end of phase 2: the final report
FinalReport ==
    /\ app = "models"
    /\ pc = "download"
    /\ idx > Len(DownloadList)
    /\ report' = Display(rows, all_metadata)
    /\ reports_written' = reports_written + 1
    /\ pc' = "done"
    /\ UNCHANGED <<hvars, inputs, run, download_nsfw, unique_model_ids, unique_count, rows,
                   all_metadata, valid_models, nsfw_models, idx, attempt, fs,
                   requested, fault, fn, api, gvars>>

\* the program is started again on the same input; CivitModels/ is kept
NewRun ==
    /\ app = "models"
    /\ pc \in {"done", "exit", "crashed"}
    /\ run < MaxRuns
    /\ run' = run + 1
    /\ pc' = "start"
    /\ download_nsfw' = FALSE
    /\ unique_model_ids' = <<>>
    /\ unique_count' = 0
    /\ rows' = <<>>
    /\ all_metadata' = <<>>
    /\ valid_models' = <<>>
    /\ nsfw_models' = <<>>
    /\ idx' = 1
    /\ attempt' = 1
    /\ report' = <<>>
    /\ reports_written' = 0
    /\ requested' = {}
    /\ fault' = NoFault
    /\ UNCHANGED <<hvars, inputs, fs, fn, api, gvars>>

NextModels ==
    \/ ResolveInput
    \/ CollectMetadata
    \/ InitialReport
    \/ AskDownload
    \/ SkipNoUrl
    \/ SkipNsfw
    \/ DownloadAttempt
    \/ FinalReport
    \/ NewRun

Spec == InitModels /\ [][NextModels]_vars

-----------------------------------------------------------------------------
(* Properties of the model downloader *)

RowIds == 1..Len(rows)

Listed(list) == {list[k] : k \in 1..Len(list)}

\* C1. A model's status is Success only if the complete response body is in
\* the destination file the download call resolved: a file holding a part of
\* the body is never reported as Success.
C1_SuccessOnlyIfComplete ==
    app = "models" =>
        \A i \in RowIds :
            rows[i].status = "Success" => fs[rows[i].saved].body = "complete"

\* C2. Within a run the Status of a row changes at most once: a row that holds
\* a status other than Pending keeps it in every later step of the driver.
C2_StatusWrittenOnce ==
    [][\A i \in RowIds :
          (run' = run /\ rows[i].status # "Pending")
              => (i <= Len(rows') /\ rows'[i].status = rows[i].status)]_vars

\* a failed-metadata row that phase 2 of the CLI has walked past, and a row
\* that phase 2 has given its status
C2_Witness ==
    /\ app = "models"
    /\ pc = "done"
    /\ reports_written = 2
    /\ \E i, j \in RowIds :
        /\ rows[i].status = MetaFailedStatus(variant)
        /\ rows[j].status = "Download failed"
        /\ variant = "CLI"

\* C3. The report of a run that has ended holds exactly one row for each
\* unique model ID of the input.
C3_ReportHasEveryModel ==
    (app = "models" /\ pc = "done" /\ entries # <<>>) =>
        \A k \in 1..Len(unique_model_ids) :
            Cardinality({j \in 1..Len(report) : report[j].id = unique_model_ids[k]}) = 1

\* the rows the NSFW filter lets through to a download request
PassesFilter(i) == rows[i].error = "none" /\ (~rows[i].is_nsfw \/ download_nsfw)

\* C4. A 404 on one model's metadata request never ends the run; the model
\* gets a metadata-failure row in the report list; and when the run is over,
\* every other model was requested if and only if the filter lets it through,
\* and holds a status written by the download phase.
C4_NotFoundIsScoped ==
    app = "models" =>
        /\ fault.resp # "404"
        /\ \A i \in RowIds :
              rows[i].error = "HTTPError" =>
                  /\ rows[i].status = MetaFailedStatus(variant)
                  /\ i \in Listed(all_metadata)
                  /\ i \notin requested
        /\ (pc \notin {"start", "collect", "crashed", "exit"}
            /\ \E i \in RowIds : rows[i].error = "HTTPError")
              => Len(rows) = Len(unique_model_ids)
        /\ (pc = "done" /\ download_choice
            /\ \E i \in RowIds : rows[i].error = "HTTPError")
              => \A j \in RowIds :
                    rows[j].error = "none" =>
                        /\ (j \in requested) = PassesFilter(j)
                        /\ rows[j].status # "Pending"

\* a batch of two with a 404 on the first, the second downloaded
C4_Witness ==
    /\ app = "models"
    /\ pc = "done"
    /\ Len(rows) = 2
    /\ rows[1].error = "HTTPError"
    /\ rows[2].status = "Success"
    /\ 2 \in requested
    /\ Len(report) = 2

\* C5. A well-formed HTTP answer that lacks modelVersions, files or downloadUrl
\* never ends the run: the model gets a metadata-failure row and the batch
\* goes on.
C5_MalformedIsScoped ==
    app = "models" =>
        /\ fault.resp \notin Malformed
        /\ \A i \in RowIds :
              rows[i].error \in {"KeyError", "IndexError"} =>
                  rows[i].status = MetaFailedStatus(variant)

Transient == {"ConnectionError", "Timeout", "RetryError", "ChunkedEncodingError"}

\* C6. A transient network failure of a download never ends the run: it is
\* retried, and the model ends as Download failed when every attempt fails.
C6_TransientIsScoped ==
    app = "models" => ~(fault.phase = "download" /\ fault.exc \in Transient)

\* C7. A download call that writes the complete file is reported as Success,
\* and a call that finds the complete file of an earlier call is reported as
\* Skipped (Already exists), never as Success.
C7_TwiceIsSuccessThenSkipped ==
    app = "models" =>
        \A i \in RowIds :
            (rows[i].saved # NoFile /\ fs[rows[i].saved].body = "complete") =>
                rows[i].status =
                    IF fs[rows[i].saved].by = run
                    THEN "Success"
                    ELSE "Skipped (Already exists)"

-----------------------------------------------------------------------------
(* The gallery walk: CivitaiDownloader.download_gallery *)

\* bounds of the walk
MaxPages == 2
MaxItems == 2
MaxCounted == 2

NoUrlGiven == [base |-> "", ext |-> ""]

\* the images the API lists; id 0 and NoUrlGiven are an item without id, without url
ItemPool ==
    { [id |-> 1, url |-> [base |-> "a", ext |-> "jpg"]],
      [id |-> 2, url |-> [base |-> "b", ext |-> "png"]],
      [id |-> 0, url |-> [base |-> "a", ext |-> "jpg"]],
      [id |-> 1, url |-> NoUrlGiven] }

\* GUI: img_<id>.<ext>;  CLI: <model name>_<base name of the url>.png
ImagePath(v, it) ==
    IF v = "GUI" THEN <<it.id, it.url.ext>> ELSE <<0, it.url.base>>

\* the paths a walk can write: the GUI builds a path only for an item with an id
ImageFiles(v) ==
    {ImagePath(v, it) :
        it \in {i \in ItemPool : i.url # NoUrlGiven /\ (v = "GUI" => i.id # 0)}}

\* a file an earlier walk saved
Old == [body |-> "complete", by |-> 0]

\* what make_api_request('images', params) gives: a page, or no page
\* (GUI: None; CLI: ValueError on 404, ConnectionError when the retries are used up)
\* The GUI reads metadata.currentPage and metadata.nextPage and never
\* len(items) against the limit; the CLI reads len(items) against the limit
\* and never the metadata. full says that the page holds params['limit']
\* items. An item's content is drawn when the item loop
\* reaches it: the API lists what it likes, whatever the walk has done.
PageOutcomes(v) ==
    [kind : {"page"}, n : 0..MaxItems,
     full : BOOLEAN,
     currentPage : IF v = "GUI" THEN {-1, 0} ELSE {-1},
     nextPage : IF v = "GUI" THEN BOOLEAN ELSE {FALSE}]
    \cup [kind : {"failed"}, n : {0}, full : {FALSE}, currentPage : {-1},
          nextPage : {FALSE}]

\* "modelVersionId=" is one symbol of the alphabet
VERSION == "modelVersionId="

\* the positions where r"modelVersionId=(\d+)" matches
VersionStarts(url) ==
    {i \in 1..(Len(url) - 1) : url[i] = VERSION /\ url[i + 1] \in Digits}

\* version_match.group(1) if version_match else None (None: <<>>)
VersionOf(url) ==
    IF VersionStarts(url) = {}
    THEN <<>>
    ELSE LET i == Min(VersionStarts(url))
         IN  SubSeq(url, i + 1, DigitRunEnd(url, i + 1))

parse_url_lenient(url) ==
    [ok |-> TRUE, model_id |-> ExtractModelId(url), version_id |-> VersionOf(url)]

\* parse_url: (model_id, version_id), or ValueError (ok = FALSE) when
\* r"/models/(\d+)" does not match
parse_url(url) ==
    IF MatchStarts(url) = {}
    THEN [ok |-> FALSE, model_id |-> <<>>, version_id |-> <<>>]
    ELSE [ok |-> TRUE, model_id |-> ExtractModelId(url), version_id |-> VersionOf(url)]

\* the choices of the filter: the GUI radio, the CLI menu ("3" leaves the program)
NsfwChoices(v) ==
    IF v = "GUI" THEN {"All", "SFW Only", "NSFW Only"} ELSE {"1", "2"}

FiltersSfwOmitted(v, choice) ==
    IF v = "GUI"
    THEN (IF choice = "NSFW Only" THEN "true" ELSE "absent")
    ELSE (IF choice = "2" THEN "true" ELSE "absent")

\* the filter dict, by the value of its one key: {'nsfw': 'true'},
\* {'nsfw': 'false'}, {} ("absent")
Filters(v, choice) ==
    IF v = "GUI"
    THEN CASE choice = "NSFW Only" -> "true"
           [] choice = "SFW Only" -> "false"
           [] OTHER -> "absent"
    ELSE CASE choice = "1" -> "false"
           [] choice = "2" -> "true"
           [] OTHER -> "absent"

LIMIT_CLI == 200
LIMIT_GUI == 100

\* params = {'modelId': model_id, 'limit': ..., 'page': 1, **filters};
\* if version_id: params['modelVersionId'] = version_id    ('page' is page)
InitialParams(v, model_id, version_id, filters) ==
    [modelId |-> model_id,
     limit |-> IF v = "CLI" THEN LIMIT_CLI ELSE LIMIT_GUI,
     modelVersionId |-> version_id,
     nsfw |-> filters]

\* the URLs given: a model, a model and a version, no /models/, /models/ without digits
UrlPool ==
    { <<"h", MODELS, "1">>,
      <<"h", MODELS, "1", "?", VERSION, "7">>,
      <<"h", "/", "1">>,
      <<"h", MODELS, "x">> }

ImageInputs(v) == [url : UrlPool, nsfw_choice : NsfwChoices(v)]

\* the SFW-only walk of a model's gallery
SfwInput(v) ==
    [url |-> <<"h", MODELS, "1">>, nsfw_choice |-> IF v = "GUI" THEN "SFW Only" ELSE "1"]

\* download_gallery is entered: the params dict is built
StartsWalk ==
    /\ pc = "fetch"
    /\ idx = 1
    /\ fault = NoFault
    /\ WalkIdle
    /\ parse_url(image_input.url).ok
    /\ params = InitialParams(variant, parse_url(image_input.url).model_id,
                              parse_url(image_input.url).version_id,
                              Filters(variant, image_input.nsfw_choice))

\* the walk as download_gallery starts it: parse_url has given the IDs
InitGallery ==
    /\ app = "gallery"
    /\ HandlersIdle
    /\ variant \in Variants
    /\ image_input = SfwInput(variant)
    /\ fs \in [ImageFiles(variant) -> {Absent, Old}]
    /\ StartsWalk
    /\ ModelsIdle
    /\ FnIdle
    /\ ApiIdle

\* a page request was answered with: no page, no items, a page with fewer
\* items than the limit, a page with as many items as the limit
PageKind(resp) ==
    CASE resp.kind = "failed" -> "failed"
      [] resp.n = 0 -> "empty"
      [] resp.full -> "full"
      [] OTHER -> "short"

\* the image requests issued so far for a path
Requests(path) ==
    IF path \in DOMAIN image_requests THEN image_requests[path] ELSE 0

\* requests.get(img_url, ...) / download_image(url, img_path) is called
\* (counted up to MaxCounted)
Requested(path) ==
    [q \in DOMAIN image_requests \cup {path} |->
        IF q = path /\ Requests(q) < MaxCounted THEN Requests(q) + 1
        ELSE Requests(q)]

\* one turn of the while loop up to the item loop: the page request
FetchPage ==
    /\ app = "gallery"
    /\ pc = "fetch"
    /\ Len(pages_requested) < MaxPages
    /\ pages_requested' = Append(pages_requested, page)
    /\ \E resp \in PageOutcomes(variant) :
        /\ resp.n > 0 \/ ~resp.full
        /\ page_log' = Append(page_log, PageKind(resp))
        /\ IF resp.kind = "failed" \/ resp.n = 0
           THEN /\ pc' = "done"
                /\ UNCHANGED <<n_items, current_page, page_full>>
           ELSE /\ pc' = "items"
                /\ n_items' = resp.n
                /\ current_page' = IF resp.currentPage = -1 THEN page
                                   ELSE resp.currentPage
                /\ page_full' = resp.full
    /\ idx' = 1
    /\ sent' = sent \cup {params}
    /\ UNCHANGED <<hvars, app, variant, fs, fault, fn, api, mvars, page, processed_image_ids,
                   total_downloaded, failed_images, image_requests, image_input,
                   params, img>>

InItems ==
    /\ app = "gallery"
    /\ pc = "items"
    /\ idx <= n_items

\* GUI: an item is passed over without a request
\*   if not img_url or not img_id / if img_id in processed_image_ids
PassedOverGUI(it) ==
    \/ it.url = NoUrlGiven
    \/ it.id = 0
    \/ it.id \in processed_image_ids

SkipsNoImage(path) == FALSE

SkipsOldImageOnly(path) == Exists(path) /\ fs[path].by = 0

\* if os.path.exists(img_path): ... continue
SkipsExistingImage(path) == Exists(path)

\* GUI: what the download of one image can meet
ImageOutcomesGUI ==
    {"ok", "get_failed", "stream_failed", "remove_failed", "OSError"}

\* GUI: the file after the try/except around one image
ImageFileAfterGUI(o) ==
    CASE o = "ok" -> [body |-> "complete", by |-> 1]
      [] o \in {"remove_failed", "OSError"} -> [body |-> "partial", by |-> 1]
      [] OTHER -> Absent

\* GUI: one item of the page
ProcessItemGUI ==
    /\ InItems
    /\ variant = "GUI"
    /\ img' \in ItemPool
    /\ LET it == img'
           img_path == ImagePath("GUI", it)
       IN  IF PassedOverGUI(it)
           THEN /\ idx' = idx + 1
                /\ UNCHANGED <<fs, processed_image_ids, total_downloaded, pc, fault,
                               image_requests>>
           ELSE IF SkipsExistingImage(img_path)
           THEN /\ processed_image_ids' = processed_image_ids \cup {it.id}
                /\ idx' = idx + 1
                /\ UNCHANGED <<fs, total_downloaded, pc, fault, image_requests>>
           ELSE \E o \in ImageOutcomesGUI :
                /\ image_requests' = Requested(img_path)
                /\ fs' = [fs EXCEPT ![img_path] = ImageFileAfterGUI(o)]
                /\ IF o = "ok"
                   THEN /\ total_downloaded' = total_downloaded + 1
                        /\ processed_image_ids' = processed_image_ids \cup {it.id}
                        /\ idx' = idx + 1
                        /\ UNCHANGED <<pc, fault>>
                   ELSE IF o = "OSError"
                   THEN /\ pc' = "done"
                        /\ fault' = [exc |-> "OSError", resp |-> "image", phase |-> "items"]
                        /\ UNCHANGED <<total_downloaded, processed_image_ids, idx>>
                   ELSE /\ idx' = idx + 1
                        /\ UNCHANGED <<total_downloaded, processed_image_ids, pc, fault>>
    /\ UNCHANGED <<hvars, app, variant, fn, api, mvars, page, n_items, current_page, page_full,
                   failed_images, pages_requested, page_log, image_input, params, sent>>

\* CLI: what download_image can end with: True; False with no file; False
\* after Image.save failed part-way
ImageOutcomesCLI == {"ok", "failed", "save_failed"}

ImageFileAfterCLI(o) ==
    CASE o = "ok" -> [body |-> "complete", by |-> 1]
      [] o = "save_failed" -> [body |-> "partial", by |-> 1]
      [] OTHER -> Absent

\* CLI: one item of the page
ProcessItemCLI ==
    /\ InItems
    /\ variant = "CLI"
    /\ img' \in ItemPool
    /\ LET it == img'
           img_path == ImagePath("CLI", it)
       IN  IF it.url = NoUrlGiven \/ SkipsExistingImage(img_path)
           THEN UNCHANGED <<fs, total_downloaded, failed_images, image_requests>>
           ELSE \E o \in ImageOutcomesCLI :
                /\ image_requests' = Requested(img_path)
                /\ fs' = [fs EXCEPT ![img_path] = ImageFileAfterCLI(o)]
                /\ total_downloaded' = total_downloaded + (IF o = "ok" THEN 1 ELSE 0)
                /\ failed_images' = failed_images + (IF o = "ok" THEN 0 ELSE 1)
    /\ idx' = idx + 1
    /\ UNCHANGED <<hvars, app, variant, pc, fault, fn, api, mvars, page, n_items, current_page,
                   page_full, processed_image_ids, pages_requested, page_log,
                   image_input, params, sent>>

\* the end of the item loop: the next page, or (CLI) the end of the gallery
EndPage ==
    /\ app = "gallery"
    /\ pc = "items"
    /\ idx > n_items
    /\ IF variant = "GUI"
       THEN /\ page' = current_page + 1
            /\ pc' = "fetch"
       ELSE IF ~page_full
       THEN /\ pc' = "done"
            /\ UNCHANGED page
       ELSE /\ page' = page + 1
            /\ pc' = "fetch"
    /\ img' = NoItem
    /\ UNCHANGED <<hvars, app, variant, idx, fs, fault, fn, api, mvars, n_items, current_page,
                   page_full, processed_image_ids, total_downloaded, failed_images,
                   pages_requested, page_log, image_requests, image_input, params,
                   sent>>

NextGallery ==
    \/ FetchPage
    \/ ProcessItemGUI
    \/ ProcessItemCLI
    \/ EndPage

SpecGallery == InitGallery /\ [][NextGallery]_vars

\* the walks of every input that parse_url accepts, over a folder that an
\* earlier walk has filled
InitWalkInputs ==
    /\ app = "gallery"
    /\ HandlersIdle
    /\ variant \in Variants
    /\ image_input \in ImageInputs(variant)
    /\ fs = [f \in ImageFiles(variant) |-> Old]
    /\ StartsWalk
    /\ ModelsIdle
    /\ FnIdle
    /\ ApiIdle

SpecWalkInputs == InitWalkInputs /\ [][NextGallery]_vars

\* a finite gallery: the source has fewer than MaxPages pages, a request for
\* a page from MaxPages on is answered with no items (or fails)
FetchPageOfFiniteGallery ==
    /\ FetchPage
    /\ page >= MaxPages => page_log'[Len(page_log')] \in {"empty", "failed"}

\* a page request of the same walk past the MaxPages requests the logs hold:
\* the loop has no bound of its own
FetchLaterPage ==
    /\ app = "gallery"
    /\ pc = "fetch"
    /\ Len(pages_requested) = MaxPages
    /\ \E resp \in PageOutcomes(variant) :
        /\ resp.n > 0 \/ ~resp.full
        /\ page >= MaxPages => PageKind(resp) \in {"empty", "failed"}
        /\ IF resp.kind = "failed" \/ resp.n = 0
           THEN /\ pc' = "done"
                /\ UNCHANGED <<n_items, current_page, page_full>>
           ELSE /\ pc' = "items"
                /\ n_items' = resp.n
                /\ current_page' = IF resp.currentPage = -1 THEN page
                                   ELSE resp.currentPage
                /\ page_full' = resp.full
    /\ idx' = 1
    /\ sent' = sent \cup {params}
    /\ UNCHANGED <<hvars, app, variant, fs, fault, fn, api, mvars, page, processed_image_ids,
                   total_downloaded, failed_images, image_requests, image_input,
                   params, img, pages_requested, page_log>>

NextFiniteGallery ==
    \/ FetchPageOfFiniteGallery
    \/ FetchLaterPage
    \/ ProcessItemGUI
    \/ ProcessItemCLI
    \/ EndPage

\* the walk of a finite gallery; the walk is one thread that runs on
FairFiniteGallery == WF_vars(NextFiniteGallery)

SpecFiniteGallery ==
    InitGallery /\ [][NextFiniteGallery]_vars /\ FairFiniteGallery

\* both downloaders
SpecDownloads ==
    (InitModels \/ InitGallery) /\ [][NextModels \/ NextGallery]_vars

\* C8. No step of a download (a model file, a gallery image) changes a file
\* that exists when the step resolves its destination: every file that exists
\* before a step is the same file after it.
C8_ExistingFileUntouched ==
    [][\A f \in DOMAIN fs : fs[f].body # "none" => fs'[f] = fs[f]]_vars

\* the GUI walk met image 1 on disk from an earlier walk, marked it processed
\* and downloaded nothing
C8_Witness ==
    /\ app = "gallery"
    /\ variant = "GUI"
    /\ 1 \in processed_image_ids
    /\ total_downloaded = 0
    /\ fs[<<1, "jpg">>] = Old

-----------------------------------------------------------------------------
(* The resolve/dedup step alone, on every list of entries *)

MaxResolveEntries == 3

\* bare IDs, URLs of the same IDs, a URL with a longer ID, a URL with digits
\* after the ID, "/models/" without digits, and "/models/" twice
ResolveEntryPool ==
    { <<"1">>, <<"2">>, <<"1", "2">>,
      <<"h", MODELS, "1">>,
      <<"h", MODELS, "1", "2", "?">>,
      <<"h", MODELS, "2", "v", "3">>,
      <<"h", MODELS, "x">>,
      <<MODELS, "x", MODELS, "1">> }

InitResolve ==
    /\ app = "resolve"
    /\ HandlersIdle
    /\ variant \in Variants
    /\ pc = "start"
    /\ idx = 1
    /\ fs = [f \in FileNames |-> Absent]
    /\ fault = NoFault
    /\ run = 1
    /\ mode = "bulk"
    /\ entries \in SeqsUpTo(ResolveEntryPool, MaxResolveEntries) \ {<<>>}
    /\ nsfw_choice = FALSE
    /\ download_choice = FALSE
    /\ download_nsfw = FALSE
    /\ unique_model_ids = <<>>
    /\ unique_count = 0
    /\ rows = <<>>
    /\ all_metadata = <<>>
    /\ valid_models = <<>>
    /\ nsfw_models = <<>>
    /\ attempt = 1
    /\ report = <<>>
    /\ reports_written = 0
    /\ requested = {}
    /\ GalleryIdle
    /\ FnIdle
    /\ ApiIdle

\* "Remove duplicates and extract model IDs", and the count it prints
ResolveEntries ==
    /\ app = "resolve"
    /\ pc = "start"
    /\ unique_model_ids' = Resolve(entries)
    /\ unique_count' = Len(Resolve(entries))
    /\ pc' = "resolved"
    /\ UNCHANGED <<hvars, inputs, run, download_nsfw, rows, all_metadata, valid_models,
                   nsfw_models, idx, attempt, fs, report, reports_written,
                   requested, fault, fn, api, gvars>>

SpecResolve == InitResolve /\ [][ResolveEntries]_vars

\* id is what r"/models/(\d+)" captures in entry at its first match, or the
\* whole entry when there is no match
IsIdOf(id, entry) ==
    \/ /\ \A i \in 1..(Len(entry) - 1) :
              ~(entry[i] = MODELS /\ entry[i + 1] \in Digits)
       /\ id = entry
    \/ \E i \in 1..(Len(entry) - 1) :
        /\ entry[i] = MODELS /\ entry[i + 1] \in Digits
        /\ \A h \in 1..(i - 1) : ~(entry[h] = MODELS /\ entry[h + 1] \in Digits)
        /\ \E k \in (i + 1)..Len(entry) :
            /\ \A d \in (i + 1)..k : entry[d] \in Digits
            /\ k = Len(entry) \/ entry[k + 1] \notin Digits
            /\ id = SubSeq(entry, i + 1, k)

\* the first entry that names id
FirstSeen(id) == Min({k \in 1..Len(entries) : IsIdOf(id, entries[k])})

\* the strings that can be the ID of an entry
Candidates ==
    UNION {{SubSeq(entries[k], a, b) : a, b \in 1..Len(entries[k])} :
           k \in 1..Len(entries)}

DistinctIds == {id \in Candidates : \E k \in 1..Len(entries) : IsIdOf(id, entries[k])}

\* C9. The working list holds the ID of every entry, each exactly once, in
\* the order of the first entry that names it, and the count is the number of
\* distinct IDs; a bare ID and a URL of the same ID are one model.
C9_ResolveIsFirstSeenUnique ==
    (app = "resolve" /\ pc = "resolved") =>
        /\ \A p, q \in 1..Len(unique_model_ids) :
              p # q => unique_model_ids[p] # unique_model_ids[q]
        /\ {unique_model_ids[p] : p \in 1..Len(unique_model_ids)} = DistinctIds
        /\ \A p, q \in 1..Len(unique_model_ids) :
              p < q => FirstSeen(unique_model_ids[p]) < FirstSeen(unique_model_ids[q])
        /\ unique_count = Cardinality(DistinctIds)

\* a URL of model 1, the bare ID 2, the bare ID 1: two models, 1 before 2
C9_Witness ==
    /\ app = "resolve"
    /\ pc = "resolved"
    /\ entries = << <<"h", MODELS, "1">>, <<"2">>, <<"1">> >>
    /\ unique_model_ids = << <<"1">>, <<"2">> >>
    /\ unique_count = 2

-----------------------------------------------------------------------------
(* detect_nsfw_from_tags alone, on every tag list and flag *)

MaxTags == 2

NotAString(text) == [str |-> FALSE, text |-> text]

TagPool ==
    { Tag(<<"n", "s", "f", "w">>),
      Tag(<<"N", "S", "F", "W", "-", "a">>),
      Tag(<<"x", "n", "S", "f", "W">>),
      Tag(<<"p", "o">>),
      Tag(<<"n", "s", "f">>),
      Tag(<<"s", "f", "w">>),
      NotAString(<<"n", "s", "f", "w">>) }

InitNsfw ==
    /\ app = "nsfw"
    /\ HandlersIdle
    /\ variant \in Variants
    /\ pc = "start"
    /\ idx = 1
    /\ fs = [f \in FileNames |-> Absent]
    /\ fault = NoFault
    /\ ModelsIdle
    /\ GalleryIdle
    /\ fn \in [in : SeqsUpTo(TagPool, MaxTags), flag : BOOLEAN, out : {""},
               done : {FALSE}]
    /\ ApiIdle

\* nsfw_status = detect_nsfw_from_tags(tags, is_nsfw_flagged)
Classify ==
    /\ app = "nsfw"
    /\ ~fn.done
    /\ fn' = [fn EXCEPT !.out = detect_nsfw_from_tags(variant, fn.in, fn.flag),
                        !.done = TRUE]
    /\ UNCHANGED <<hvars, app, variant, pc, idx, fs, fault, api, mvars, gvars>>

SpecNsfw == InitNsfw /\ [][Classify]_vars

\* the tag is a string that holds "nsfw" in any mix of cases
HoldsNsfw(tag) ==
    /\ tag.str
    /\ \E i \in 1..(Len(tag.text) - 3) :
        /\ tag.text[i] \in {"n", "N"}
        /\ tag.text[i + 1] \in {"s", "S"}
        /\ tag.text[i + 2] \in {"f", "F"}
        /\ tag.text[i + 3] \in {"w", "W"}

\* C10. The classification is NSFW if a tag string holds "nsfw" in any case;
\* otherwise NSFW if the explicit flag is set, the empty tag list included;
\* otherwise SFW.
C10_Classification ==
    (app = "nsfw" /\ fn.done) =>
        fn.out = IF \E i \in 1..Len(fn.in) : HoldsNsfw(fn.in[i]) THEN "NSFW"
                 ELSE IF fn.flag THEN "NSFW"
                 ELSE "SFW"

-----------------------------------------------------------------------------
(* The content filter *)

\* the rows of the models that were collected with a download URL
Collected == {i \in RowIds : rows[i].error = "none" /\ rows[i].url}

\* C11. In a run whose download phase is over, a download request was issued
\* for a collected model if and only if its NSFW column says SFW or the global
\* NSFW decision is true; when the decision is false every model reported
\* NSFW holds Skipped (NSFW) and was not requested.
C11_FilterPartition ==
    (app = "models" /\ pc = "done" /\ download_choice) =>
        \A i \in Collected :
            /\ (i \in requested) = (rows[i].nsfw = "SFW" \/ download_nsfw)
            /\ (~download_nsfw /\ rows[i].nsfw = "NSFW")
                  => rows[i].status = "Skipped (NSFW)"

-----------------------------------------------------------------------------
(* The API client of the image downloaders: make_api_request *)

MAX_RETRIES_CLI == 5
MAX_RETRIES_GUI == 3
RETRY_DELAY_CLI == 3
RETRY_DELAY_GUI == 10

MAX_RETRIES(v) == IF v = "CLI" THEN MAX_RETRIES_CLI ELSE MAX_RETRIES_GUI
RETRY_DELAY(v) == IF v = "CLI" THEN RETRY_DELAY_CLI ELSE RETRY_DELAY_GUI

\* what requests.get can give: a response with its status and its Retry-After
\* header (<<>> when absent), or an exception of the transport (status 0)
ApiResponses ==
    [status : {200, 400, 401, 403, 404, 500, 524}, retry_after : {<<>>},
     exc : {"none"}]
    \cup [status : {429}, retry_after : {<<>>, <<2>>, <<7>>}, exc : {"none"}]
    \cup [status : {0}, retry_after : {<<>>}, exc : {"ConnectionError", "Timeout"}]

\* the branch of the if/elif chain (or the except clause) a response takes
Branch(v, resp) ==
    CASE resp.exc # "none" -> "conn"
      [] resp.status = 200 -> "ok"
      [] v = "GUI" /\ resp.status \in {401, 403} -> "auth"
      [] resp.status \in {429, 524} -> "rate"
      [] v = "CLI" /\ resp.status = 404 -> "notfound"
      [] v = "GUI" /\ resp.status >= 500 -> "server"
      [] OTHER -> "other"

\* the status or failure cause of a response, as an error message quotes it
Cause(resp) == [status |-> resp.status, exc |-> resp.exc]

WaitTimeIgnoresHeader(v, resp, retries) ==
    IF v = "GUI" /\ Branch(v, resp) \in {"server", "conn"}
    THEN RETRY_DELAY(v) * (retries + 1)
    ELSE RETRY_DELAY(v)

\* the argument of time.sleep; retries is the count before the increment
\*   rate:  int(response.headers.get('Retry-After', RETRY_DELAY))
\*   GUI server / conn:  RETRY_DELAY * (retries), after retries += 1
\*   CLI other / conn:   RETRY_DELAY
WaitTime(v, resp, retries) ==
    IF Branch(v, resp) = "rate"
    THEN IF resp.retry_after # <<>> THEN resp.retry_after[1] ELSE RETRY_DELAY(v)
    ELSE IF v = "GUI" THEN RETRY_DELAY(v) * (retries + 1)
    ELSE RETRY_DELAY(v)

RetriesAfterRateLimit(v, resp, retries) ==
    IF Branch(v, resp) = "rate" THEN retries ELSE retries + 1

\* retries += 1
RetriesAfter(v, resp, retries) == retries + 1

Returned(value) == [value |-> value, exc |-> "none", carries |-> NoCause]
Raised(exc, carries) == [value |-> "raise", exc |-> exc, carries |-> carries]

\* one turn of the while loop of the CLI's make_api_request
ApiStepCLI(resp, retries) ==
    LET b == Branch("CLI", resp)
        more == RetriesAfter("CLI", resp, retries)
    IN  CASE b = "ok" ->
               [ended |-> TRUE, result |-> Returned("json"), retries |-> retries,
                sleep |-> <<>>]
          [] b = "notfound" ->
               [ended |-> TRUE, result |-> Raised("ValueError", NoCause),
                retries |-> retries, sleep |-> <<>>]
          [] b = "rate" ->
               \* the sleep comes first; the loop ends on its condition and
               \* "Failed to connect after N attempts" is raised
               [ended |-> more >= MAX_RETRIES("CLI"),
                result |-> IF more >= MAX_RETRIES("CLI")
                           THEN Raised("ConnectionError", NoCause) ELSE NoResult,
                retries |-> more, sleep |-> <<WaitTime("CLI", resp, retries)>>]
          [] OTHER ->
               \* other statuses ("Last status: ...") and ConnectionError,
               \* Timeout (str(e)): raised on the last attempt, without a sleep
               IF retries >= MAX_RETRIES("CLI") - 1
               THEN [ended |-> TRUE,
                     result |-> Raised("ConnectionError", Cause(resp)),
                     retries |-> retries, sleep |-> <<>>]
               ELSE [ended |-> FALSE, result |-> NoResult, retries |-> more,
                     sleep |-> <<WaitTime("CLI", resp, retries)>>]

\* one turn of the while loop of the GUI's make_api_request
ApiStepGUI(resp, retries) ==
    LET b == Branch("GUI", resp)
        more == RetriesAfter("GUI", resp, retries)
    IN  CASE b = "ok" ->
               [ended |-> TRUE, result |-> Returned("json"), retries |-> retries,
                sleep |-> <<>>]
          [] b \in {"auth", "other"} ->
               [ended |-> TRUE, result |-> Returned("None"), retries |-> retries,
                sleep |-> <<>>]
          [] OTHER ->
               \* rate, server, conn: sleep, and None when the loop ends
               [ended |-> more >= MAX_RETRIES("GUI"),
                result |-> IF more >= MAX_RETRIES("GUI")
                           THEN Returned("None") ELSE NoResult,
                retries |-> more, sleep |-> <<WaitTime("GUI", resp, retries)>>]

ApiStep(v, resp, retries) ==
    IF v = "CLI" THEN ApiStepCLI(resp, retries) ELSE ApiStepGUI(resp, retries)

\* the image run: fetch_model_info asks for models/<id>, then download_gallery
\* asks for the first page of images
InitApi ==
    /\ app = "api"
    /\ HandlersIdle
    /\ variant \in Variants
    /\ pc = "start"
    /\ idx = 1
    /\ fs = [f \in FileNames |-> Absent]
    /\ fault = NoFault
    /\ ModelsIdle
    /\ WalkIdle
    /\ params = NoParams
    /\ image_input \in {i \in ImageInputs(variant) :
                            /\ VersionOf(i.url) = <<>>
                            /\ i.nsfw_choice = SfwInput(variant).nsfw_choice}
    /\ FnIdle
    /\ api = NoCall

\* main / handle_image_download up to the first API call: parse_url gives the
\* IDs and fetch_model_info makes its request, or parse_url raises ValueError
\* and the run ends with the message
ParseUrl ==
    /\ app = "api"
    /\ pc = "start"
    /\ IF parse_url(image_input.url).ok
       THEN /\ pc' = "run"
            /\ api' = [NoCall EXCEPT !.endpoint = "models"]
       ELSE /\ pc' = "invalid"
            /\ UNCHANGED api
    /\ UNCHANGED <<hvars, app, variant, idx, fs, fault, fn, mvars, gvars>>

\* one HTTP request of the call under way and what the loop does with the answer
ApiAttempt ==
    /\ app = "api"
    /\ api.endpoint # "none"
    /\ ~api.ended
    /\ api.retries < MAX_RETRIES(variant)
    /\ \E resp \in ApiResponses :
        LET step == ApiStep(variant, resp, api.retries)
        IN  api' = [api EXCEPT !.history = Append(@, resp),
                               !.sleeps = @ \o step.sleep,
                               !.retries = step.retries,
                               !.ended = step.ended,
                               !.result = step.result,
                               !.auth_seen = @ \/ resp.status \in {401, 403}]
    /\ UNCHANGED <<hvars, app, variant, pc, idx, fs, fault, fn, mvars, gvars>>

\* fetch_model_info has its answer (or has caught the failure and taken the
\* default names); download_gallery makes its first page request
GalleryCall ==
    /\ app = "api"
    /\ api.endpoint = "models"
    /\ api.ended
    /\ api' = [NoCall EXCEPT !.endpoint = "images", !.auth_seen = api.auth_seen]
    /\ params' = InitialParams(variant, parse_url(image_input.url).model_id,
                               parse_url(image_input.url).version_id,
                               Filters(variant, image_input.nsfw_choice))
    /\ sent' = {params'}
    /\ UNCHANGED <<hvars, app, variant, pc, idx, fs, fault, fn, mvars, page, n_items,
                   current_page, page_full, processed_image_ids, total_downloaded,
                   failed_images, pages_requested, page_log, image_requests,
                   image_input, img>>

NextApi ==
    \/ ParseUrl
    \/ ApiAttempt
    \/ GalleryCall

SpecApi == InitApi /\ [][NextApi]_vars

\* the statuses the client must not retry: 4xx other than 429
NoRetryStatus(resp) == resp.status \in 400..499 /\ resp.status # 429

\* C12. A 401, 403, 404 or other 4xx response other than 429 ends the call
\* right there: it is the last request of the call and no sleep follows it.
C12_FatalIsNotRetried ==
    app = "api" =>
        \A i \in 1..Len(api.history) :
            NoRetryStatus(api.history[i]) =>
                /\ i = Len(api.history)
                /\ api.ended
                /\ Len(api.sleeps) = i - 1

\* C13. One call issues at most MAX_RETRIES requests, and has ended once it
\* has issued that many.
C13_AtMostCapRequests ==
    app = "api" =>
        /\ Len(api.history) <= MAX_RETRIES(variant)
        /\ Len(api.history) = MAX_RETRIES(variant) => api.ended

\* a CLI call that met 429 five times
C13_Witness ==
    /\ app = "api"
    /\ variant = "CLI"
    /\ api.ended
    /\ Len(api.history) = MAX_RETRIES_CLI
    /\ \A i \in 1..Len(api.history) : api.history[i].status = 429

\* the first k answers are 429 with a Retry-After header
RateLimited(h, k) ==
    \A i \in 1..k : h[i].status = 429 /\ h[i].retry_after # <<>>

\* C14. When the first k answers (k below the cap) are 429 with Retry-After: v
\* the call goes on, and when answer k+1 is 200 the call returns the JSON
\* payload after k+1 requests, having slept v before each retry.
C14_RetryThenSuccess ==
    app = "api" =>
        LET h == api.history
            k == Len(h) - 1
        IN  /\ (RateLimited(h, Len(h)) /\ Len(h) < MAX_RETRIES(variant))
                  => ~api.ended /\ api.retries = Len(h)
            /\ (Len(h) >= 1 /\ RateLimited(h, k) /\ h[Len(h)].status = 200)
                  => /\ api.ended
                     /\ api.result = Returned("json")
                     /\ api.sleeps = [i \in 1..k |-> h[i].retry_after[1]]

\* the GUI client: 429 with Retry-After: 2 twice, then 200
C14_Witness ==
    /\ app = "api"
    /\ variant = "GUI"
    /\ api.ended
    /\ Len(api.history) = 3
    /\ RateLimited(api.history, 2)
    /\ api.history[3].status = 200
    /\ api.sleeps = <<2, 2>>

\* the outcomes that call for another attempt: 429, 5xx/524, connection error,
\* timeout
Retryable(resp) == resp.exc # "none" \/ resp.status = 429 \/ resp.status >= 500

\* 2^n
RECURSIVE Pow2(_)
Pow2(n) == IF n <= 0 THEN 1 ELSE 2 * Pow2(n - 1)

\* C15. The wait before the retry that follows attempt n is the Retry-After
\* value when the failed response carries one, and RETRY_DELAY x 2^(n-1)
\* otherwise.
C15_BackoffPolicy ==
    app = "api" =>
        \A n \in 1..Len(api.sleeps) :
            (n < Len(api.history) /\ Retryable(api.history[n])) =>
                api.sleeps[n] =
                    IF api.history[n].retry_after # <<>>
                    THEN api.history[n].retry_after[1]
                    ELSE RETRY_DELAY(variant) * Pow2(n - 1)

\* every attempt of the call met a retryable outcome and the cap is used up
Exhausted ==
    /\ api.ended
    /\ Len(api.history) = MAX_RETRIES(variant)
    /\ \A i \in 1..Len(api.history) : Retryable(api.history[i])

\* what a call ends with when a 401, 403 or 404 ends it
FatalResults(v) ==
    {ApiStep(v, resp, n).result :
        resp \in {r \in ApiResponses : r.status \in {401, 403, 404}},
        n \in {m \in 0..(MAX_RETRIES(v) - 1) : \A r \in ApiResponses :
                  r.status \in {401, 403, 404} => ApiStep(v, r, m).ended}}

\* C16. A call that used up its cap on retryable outcomes fails with an error
\* that carries the last observed status or cause and differs from what a
\* 401/403 and a 404 produce.
C16_RetryExhaustedIsDistinct ==
    (app = "api" /\ Exhausted) =>
        /\ api.result.value \notin {"json", "pending"}
        /\ api.result.carries = Cause(api.history[Len(api.history)])
        /\ api.result \notin FatalResults(variant)

\* C17. Once a call of the run was answered with 401 or 403, no further HTTP
\* request is issued in the run.
C17_AuthFailureShortCircuits ==
    [][(app = "api" /\ api.auth_seen)
          => Len(api'.history) # Len(api.history) + 1]_vars

-----------------------------------------------------------------------------
(* Properties of the gallery walk *)

\* the first k page requests were answered with full pages
FullPages(k) == \A i \in 1..k : page_log[i] = "full"

\* C18. When the source has answered N full pages and then a page with no
\* items, the walk is over and has requested the pages 1..N+1 in order; and a
\* walk that has met full pages only goes on.
C18_FullPagesThenEmpty ==
    app = "gallery" =>
        /\ (page_log # <<>> /\ FullPages(Len(page_log) - 1)
            /\ page_log[Len(page_log)] = "empty")
              => /\ pc = "done"
                 /\ pages_requested = [i \in 1..Len(page_log) |-> i]
        /\ (FullPages(Len(page_log)) /\ fault = NoFault) => pc # "done"

\* C19. The walk stops only after a page request that gave no items or that
\* failed.
C19_StopsOnlyOnEmptyPage ==
    (app = "gallery" /\ pc = "done" /\ fault = NoFault) =>
        /\ page_log # <<>>
        /\ page_log[Len(page_log)] \in {"empty", "failed"}

Saved(path) == path \in DOMAIN fs /\ fs[path].body # "none"

-----------------------------------------------------------------------------
(* Properties of the runs of the model downloader *)

\* a network request was issued in this run: a metadata request gives a row
\* or ends the run, a download request is recorded in requested
NetworkUsed == rows # <<>> \/ requested # {} \/ fault # NoFault

\* C22. A run with an empty entry list ends as invalid input: no network
\* request is issued and no report is written.
C22_EmptyInputIsRejected ==
    (app = "models" /\ entries = <<>>) =>
        /\ ~NetworkUsed
        /\ reports_written = 0
        /\ pc \in {"start", "exit"}

\* the original statement of C24: a run that has ended without an error and
\* wrote a report has no Pending row in it
C24_Original ==
    (app = "models" /\ pc = "done" /\ reports_written > 0) =>
        \A j \in 1..Len(report) : report[j].status # "Pending"

\* C24 (amended). A run that went through the download phase to its end has
\* no Pending row in the report written last.
C24_NoPendingAfterDownloads ==
    (app = "models" /\ pc = "done" /\ reports_written > 0 /\ download_choice) =>
        \A j \in 1..Len(report) : report[j].status # "Pending"

\* a CLI run over two models with its final report written
C24_Witness ==
    /\ app = "models"
    /\ variant = "CLI"
    /\ pc = "done"
    /\ download_choice
    /\ reports_written = 2
    /\ Len(report) = 2
    /\ report[1].status = "Success"
    /\ report[2].status = "Download failed"

\* the model IDs the Metadata Collector was invoked for, in order: one per
\* row, and the one whose exception ended the run
MetaRequests ==
    [i \in 1..Len(rows) |-> rows[i].id]
    \o (IF fault.phase = "collect" THEN <<unique_model_ids[idx]>> ELSE <<>>)

\* C25. No request is issued before the input is resolved, and the collector
\* is invoked at most once for a model ID: the invocations are the unique IDs
\* of the input, in order, each once.
C25_DedupBeforeNetwork ==
    (app = "models" /\ (variant = "CLI" \/ mode = "bulk")) =>
        /\ pc = "start" => ~NetworkUsed
        /\ \A i, j \in 1..Len(MetaRequests) :
              i # j => MetaRequests[i] # MetaRequests[j]
        /\ \A i \in 1..Len(MetaRequests) :
              /\ \E k \in 1..Len(entries) : ExtractModelId(entries[k]) = MetaRequests[i]
              /\ MetaRequests[i] = unique_model_ids[i]

\* a bare ID and a URL of the same model in one list: one invocation
C25_Witness ==
    /\ app = "models"
    /\ Len(entries) = 2
    /\ ExtractModelId(entries[1]) = ExtractModelId(entries[2])
    /\ entries[1] # entries[2]
    /\ pc = "done"
    /\ Len(rows) = 1

\* C26. A download request is issued only after the collection is over and
\* the initial report is written; the final report is written only when every
\* model of the download list has left Pending, and it shows the statuses the
\* rows hold.
C26_PhaseOrder ==
    app = "models" =>
        /\ requested # {} =>
              /\ reports_written >= 1
              /\ Len(rows) = Len(unique_model_ids)
        /\ pc = "collect" => reports_written = 0 /\ requested = {}
        /\ reports_written = 2 =>
              /\ \A k \in 1..Len(DownloadList) : rows[DownloadList[k]].status # "Pending"
              /\ Len(report) = Len(all_metadata)
              /\ \A j \in 1..Len(report) :
                    /\ report[j].sno = all_metadata[j]
                    /\ report[j].status = rows[all_metadata[j]].status

\* a finished run of two models, one downloaded and one failed, both shown
C26_Witness ==
    /\ app = "models"
    /\ variant = "GUI"
    /\ reports_written = 2
    /\ Len(report) = 2
    /\ requested = {1, 2}
    /\ report[1].status = "Success"
    /\ report[2].status = DownloadFailedStatus("GUI")

-----------------------------------------------------------------------------
(* Properties of the item loop of the gallery walk *)

\* this step issued an image request and left no complete image
ImageFailed(path) ==
    /\ path \in DOMAIN image_requests'
    /\ image_requests'[path] > Requests(path)
    /\ fs'[path].body # "complete"

\* C21. A failed image download is caught in the item loop: the failure
\* counter goes up by one and the loop goes on to the next item of the page.
C21_ImageFailureIsCounted ==
    [][(app = "gallery" /\ \E path \in ImageFiles(variant) : ImageFailed(path)) =>
          /\ failed_images' = failed_images + 1
          /\ pc' = pc
          /\ idx' = idx + 1]_vars

\* C28. No partial file is left at the destination of an image whose
\* download failed.
C28_NoPartialImageLeft ==
    app = "gallery" =>
        \A path \in ImageFiles(variant) : fs[path].body # "partial"

-----------------------------------------------------------------------------
(* Properties of the image run: its input and its request parameters *)

\* C23. A URL without a /models/<digits> segment ends the image run at
\* parse_url: no API call is started (no model-info request, no page
\* request) and no image is requested or written.
C23_InvalidUrlMakesNoRequest ==
    (app = "api" /\ MatchStarts(image_input.url) = {}) =>
        /\ pc \in {"start", "invalid"}
        /\ api = NoCall
        /\ sent = {}
        /\ pages_requested = <<>>
        /\ image_requests = <<>>
        /\ \A f \in DOMAIN fs : ~Exists(f)

\* the run has ended on a URL whose /models/ is followed by no digit
C23_Witness ==
    /\ app = "api"
    /\ pc = "invalid"
    /\ image_input.url = <<"h", MODELS, "x">>
    /\ api = NoCall

\* the value of the nsfw parameter each filter mode stands for
NsfwOfMode(choice) ==
    CASE choice \in {"SFW Only", "1"} -> "false"
      [] choice \in {"NSFW Only", "2"} -> "true"
      [] OTHER -> "absent"

\* C29. Every page request of a walk carries the same modelId, limit,
\* modelVersionId and nsfw filter: those of the input. A SFW-only walk sends
\* nsfw=false with every request, a NSFW-only walk nsfw=true, mode All none.
C29_SameParamsOnEveryPage ==
    app = "gallery" =>
        /\ Cardinality(sent) <= 1
        /\ pages_requested # <<>> => sent # {}
        /\ \A r \in sent :
              /\ r.modelId = ExtractModelId(image_input.url)
              /\ r.modelVersionId = VersionOf(image_input.url)
              /\ r.limit = (IF variant = "CLI" THEN LIMIT_CLI ELSE LIMIT_GUI)
              /\ r.nsfw = NsfwOfMode(image_input.nsfw_choice)

\* a GUI walk in mode All of a model version, after its last page request
C29_Witness ==
    /\ app = "gallery"
    /\ variant = "GUI"
    /\ image_input.nsfw_choice = "All"
    /\ Len(pages_requested) = MaxPages
    /\ pages_requested[1] # pages_requested[MaxPages]
    /\ sent = {[modelId |-> <<"1">>, limit |-> LIMIT_GUI, modelVersionId |-> <<"7">>,
                nsfw |-> "absent"]}

\* C30. An item without an id or without a URL is passed over: the step of
\* the item loop that takes it issues no image request, writes no file, counts
\* no download, and goes on to the next item.
C30_IncompleteItemIsPassedOver ==
    [][(/\ app = "gallery"
        /\ InItems
        /\ (img'.id = 0 \/ img'.url = NoUrlGiven)) =>
          /\ image_requests' = image_requests
          /\ fs' = fs
          /\ total_downloaded' = total_downloaded
          /\ idx' = idx + 1
          /\ pc' = pc]_vars

-----------------------------------------------------------------------------
(* Termination of the gallery walk *)

\* C27. The walk of a finite gallery ends: whatever the failures and the
\* page metadata, download_gallery stops requesting pages and returns.
C27_WalkTerminates == (app = "gallery") ~> (pc = "done")

-----------------------------------------------------------------------------
(* The fallback file name: "_filename" of the row built by the collector *)

MaxNameLen == 3

\* the characters of a model name: a letter, a blank, a path separator, a colon
NameChars == {"a", " ", "/", ":"}

\* ".safetensors"
EXTENSION == <<".", "s", "a", "f", "e", "t", "e", "n", "s", "o", "r", "s">>

\* the class [<>:"/\\|?*] of sanitize_filename
Substituted == {"<", ">", ":", "\"", "/", "\\", "|", "?", "*"}

\* GUI: re.sub(r'[<>:"/\\|?*]', '_', name) and sanitized[:100]
sanitize_filename(name) ==
    LET sanitized == [i \in 1..Len(name) |->
                         IF name[i] \in Substituted THEN "_" ELSE name[i]]
    IN  SubSeq(sanitized, 1, Min({100, Len(sanitized)}))

\* CLI: f"{model_name.replace(' ','_')}.safetensors"
\* GUI: sanitize_filename(f"{model_name}.safetensors")
FallbackName(v, model_name) ==
    IF v = "CLI"
    THEN [i \in 1..Len(model_name) |->
             IF model_name[i] = " " THEN "_" ELSE model_name[i]] \o EXTENSION
    ELSE sanitize_filename(model_name \o EXTENSION)

InitNames ==
    /\ app = "names"
    /\ HandlersIdle
    /\ variant \in Variants
    /\ pc = "start"
    /\ idx = 1
    /\ fs = [f \in FileNames |-> Absent]
    /\ fault = NoFault
    /\ ModelsIdle
    /\ GalleryIdle
    /\ fn \in [in : SeqsUpTo(NameChars, MaxNameLen), flag : {FALSE}, out : {""},
               done : {FALSE}]
    /\ ApiIdle

\* the collector builds "_filename" from the model name of the response
BuildFilename ==
    /\ app = "names"
    /\ ~fn.done
    /\ fn' = [fn EXCEPT !.out = FallbackName(variant, fn.in), !.done = TRUE]
    /\ UNCHANGED <<hvars, app, variant, pc, idx, fs, fault, api, mvars, gvars>>

SpecNames == InitNames /\ [][BuildFilename]_vars

EndsWith(s, suffix) ==
    /\ Len(s) >= Len(suffix)
    /\ SubSeq(s, Len(s) - Len(suffix) + 1, Len(s)) = suffix

\* C32. The fallback file name holds none of the characters < > : " / \ | ? *
\* and ends with .safetensors, whatever the model name.
C32_FallbackNameIsSafe ==
    (app = "names" /\ fn.done) =>
        /\ \A i \in 1..Len(fn.out) : fn.out[i] \notin Substituted
        /\ EndsWith(fn.out, EXTENSION)

-----------------------------------------------------------------------------
(* Properties of the downloaded file's name and of the report rows *)

\* C31. A downloaded file is saved under the name of the content-disposition
\* header when the response gives one and under the fallback name otherwise,
\* and the Success status carries the name the file was saved under.
C31_StatusNamesSavedFile ==
    app = "models" =>
        \A sno \in 1..Len(rows) :
            rows[sno].status = "Success" =>
                /\ rows[sno].saved =
                      (IF rows[sno].id \in NamedByServer
                       THEN ServerName(rows[sno].id)
                       ELSE rows[sno].filename)
                /\ Exists(rows[sno].saved)
                /\ rows[sno].in_status = rows[sno].saved

\* C33. A report row with status Skipped (NSFW) has NSFW in its NSFW column,
\* and a collected model whose NSFW column says SFW is not skipped by the
\* NSFW policy: when the download phase is over a request was issued for it.
C33_ColumnAgreesWithFilter ==
    app = "models" =>
        /\ \A j \in 1..Len(report) :
              report[j].status = "Skipped (NSFW)" => report[j].nsfw = "NSFW"
        /\ \A i \in Collected :
              rows[i].nsfw = "SFW" =>
                  /\ rows[i].status # "Skipped (NSFW)"
                  /\ (pc = "done" /\ download_choice) => i \in requested

\* C35. No download request is issued for a model whose metadata collection
\* failed: its row keeps the metadata-failure status, and when the download
\* phase comes to it, it goes on to the next model.
C35_FailedMetadataIsNotDownloaded ==
    [][(app = "models" /\ run' = run) =>
          \A i \in RowIds :
              rows[i].error # "none" =>
                  /\ i \notin requested'
                  /\ rows'[i] = rows[i]
                  /\ rows[i].status = MetaFailedStatus(variant)
                  /\ (InDownload /\ DownloadList[idx] = i) =>
                        (idx' = idx + 1 /\ pc' = "download")]_vars

\* phase 2 of the CLI has walked past a failed-metadata row and is at the next
C35_Witness ==
    /\ app = "models"
    /\ variant = "CLI"
    /\ pc = "download"
    /\ idx = 2
    /\ Len(rows) = 2
    /\ rows[1].error # "none"
    /\ rows[2].error = "none"
    /\ requested = {}

\* C36. The rows of a written report stand in the first-seen order of their
\* model IDs in the input: S.No goes up from each row to the next, and so does
\* the position of the row's model ID in the deduplicated input.
C36_ReportInInputOrder ==
    (app = "models" /\ reports_written > 0) =>
        \A j, k \in 1..Len(report) :
            j < k =>
                /\ report[j].sno < report[k].sno
                /\ \E a, b \in 1..Len(Resolve(entries)) :
                      /\ a < b
                      /\ Resolve(entries)[a] = report[j].id
                      /\ Resolve(entries)[b] = report[k].id

-----------------------------------------------------------------------------
(* Properties of the page numbers and of the processed set of the walk *)

\* C34. The first page request asks for page 1 and every later one for one
\* more than the request before it, whatever the response metadata holds.
C34_PagesIncreaseByOne ==
    app = "gallery" =>
        /\ pages_requested # <<>> => pages_requested[1] = 1
        /\ \A i \in 2..Len(pages_requested) :
              pages_requested[i] = pages_requested[i - 1] + 1

\* C37. GUI: every image id of the processed set has a complete file at its
\* destination, and when the walk is over the count of downloaded images is
\* the number of files the walk has newly created.
C37_ProcessedMeansComplete ==
    (app = "gallery" /\ variant = "GUI") =>
        /\ \A id \in processed_image_ids :
              \E path \in DOMAIN fs : path[1] = id /\ fs[path].body = "complete"
        /\ pc = "done" =>
              total_downloaded =
                  Cardinality({path \in DOMAIN fs :
                                  fs[path].by = 1 /\ fs[path].body = "complete"})

-----------------------------------------------------------------------------
(* The GUI handler of the image downloads: handle_image_download, run by the
   web server in a thread for each request that comes in *)

\* the n-th message invocation i prints
Message(i, n) == <<i, n>>

\* print(...) in invocation i: sys.stdout.write of the stream that sys.stdout
\* names at that moment; the console keeps nothing for the handler
PrintBy(i) ==
    /\ output_capture' = IF sys_stdout = "capture"
                         THEN Append(output_capture,
                                     Message(i, Len(call[i].printed) + 1))
                         ELSE output_capture
    /\ call' = [call EXCEPT ![i].printed =
                                Append(@, Message(i, Len(call[i].printed) + 1))]

InitHandlers ==
    /\ app = "handlers"
    /\ HandlersIdle
    /\ variant = "GUI"
    /\ pc = "start"
    /\ idx = 1
    /\ fs = [f \in FileNames |-> Absent]
    /\ fault = NoFault
    /\ ModelsIdle
    /\ GalleryIdle
    /\ FnIdle
    /\ ApiIdle

Others == <<app, variant, pc, idx, fs, fault, fn, api, mvars, gvars>>

\* a request comes in with an API key and a URL: output_capture.clear()
Begin(i) ==
    /\ app = "handlers"
    /\ call[i].pc = "idle"
    /\ output_capture' = <<>>
    /\ call' = [call EXCEPT ![i].pc = "save_stdout"]
    /\ UNCHANGED <<Others, sys_stdout, sys_stderr>>

\* original_stdout = sys.stdout
SaveStdout(i) ==
    /\ app = "handlers"
    /\ call[i].pc = "save_stdout"
    /\ call' = [call EXCEPT ![i].original_stdout = sys_stdout,
                            ![i].pc = "save_stderr"]
    /\ UNCHANGED <<Others, sys_stdout, sys_stderr, output_capture>>

\* original_stderr = sys.stderr
SaveStderr(i) ==
    /\ app = "handlers"
    /\ call[i].pc = "save_stderr"
    /\ call' = [call EXCEPT ![i].original_stderr = sys_stderr,
                            ![i].pc = "set_stdout"]
    /\ UNCHANGED <<Others, sys_stdout, sys_stderr, output_capture>>

\* sys.stdout = output_capture
SetStdout(i) ==
    /\ app = "handlers"
    /\ call[i].pc = "set_stdout"
    /\ sys_stdout' = "capture"
    /\ call' = [call EXCEPT ![i].pc = "set_stderr"]
    /\ UNCHANGED <<Others, sys_stderr, output_capture>>

\* sys.stderr = output_capture
SetStderr(i) ==
    /\ app = "handlers"
    /\ call[i].pc = "set_stderr"
    /\ sys_stderr' = "capture"
    /\ call' = [call EXCEPT ![i].pc = "try"]
    /\ UNCHANGED <<Others, sys_stdout, output_capture>>

\* a print of the try block or of one of its except blocks
Body(i) ==
    /\ app = "handlers"
    /\ call[i].pc = "try"
    /\ Len(call[i].printed) < MaxPrints
    /\ PrintBy(i)
    /\ UNCHANGED <<Others, sys_stdout, sys_stderr>>

\* the try block is left, normally or through an except block:
\* finally: sys.stdout = original_stdout
RestoreStdout(i) ==
    /\ app = "handlers"
    /\ call[i].pc = "try"
    /\ sys_stdout' = call[i].original_stdout
    /\ call' = [call EXCEPT ![i].pc = "restore_stderr"]
    /\ UNCHANGED <<Others, sys_stderr, output_capture>>

\* finally: sys.stderr = original_stderr
RestoreStderr(i) ==
    /\ app = "handlers"
    /\ call[i].pc = "restore_stderr"
    /\ sys_stderr' = call[i].original_stderr
    /\ call' = [call EXCEPT ![i].pc = "return"]
    /\ UNCHANGED <<Others, sys_stdout, output_capture>>

\* return output_capture.get_output()
Return(i) ==
    /\ app = "handlers"
    /\ call[i].pc = "return"
    /\ call' = [call EXCEPT ![i].returned = output_capture, ![i].pc = "returned"]
    /\ UNCHANGED <<Others, sys_stdout, sys_stderr, output_capture>>

NextHandlers ==
    \/ \E i \in Invocations : Begin(i)
    \/ \E i \in Invocations : SaveStdout(i)
    \/ \E i \in Invocations : SaveStderr(i)
    \/ \E i \in Invocations : SetStdout(i)
    \/ \E i \in Invocations : SetStderr(i)
    \/ \E i \in Invocations : Body(i)
    \/ \E i \in Invocations : RestoreStdout(i)
    \/ \E i \in Invocations : RestoreStderr(i)
    \/ \E i \in Invocations : Return(i)

SpecHandlers == InitHandlers /\ [][NextHandlers]_vars

\* C38. Once every invocation that began has returned, sys.stdout and
\* sys.stderr are the streams installed before the first one began.
C38_StreamsRestored ==
    (/\ app = "handlers"
     /\ \A i \in Invocations : call[i].pc \in {"idle", "returned"}) =>
        /\ sys_stdout = "console"
        /\ sys_stderr = "console"

\* C39. The text an invocation returns holds every message the invocation
\* has printed and no message of another invocation.
C39_ReturnedLogIsOwn ==
    app = "handlers" =>
        \A i \in Invocations :
            call[i].pc = "returned" => call[i].returned = call[i].printed

=============================================================================
